---- MODULE Spec2Model ----
(***************************************************************************)
(* PublicVolume (src/main.cpp, lines 357-741): the staged mount / unmount  *)
(* protocol of one public volume, run against a kernel mount table and the *)
(* external primitives declared in Utils.h (src/unnamed/part_000).         *)
(*                                                                         *)
(* Every primitive whose result the code reads is a nondeterministic       *)
(* choice of its outcome; a successful mount adds its mount point to the   *)
(* mount table and a successful unmount removes it.  `log` records the     *)
(* primitives one top-level call has invoked, in order.                    *)
(***************************************************************************)
EXTENDS Integers, Sequences, FiniteSets, TLC

VARIABLES
    vol,          \* the PublicVolume object's fields
    flags,        \* mount flags / registrations made by the owner of the volume
    dev,          \* what the block device holds (read by readMetadata)
    mounts,       \* kernel mount table: the set of mount points with a mount on them
    childAlive,   \* the child whose pid doMount holds (sdcardFsPid) has not exited
    pc,           \* position of the (single) caller inside doMount / doUnmount
    ret,          \* who called doUnmount: "top", or doMount's rollback sites
    op,           \* the top-level operation in progress or last returned
    result,       \* status returned by the last top-level operation
    log,          \* primitives invoked by the current top-level call, in order
    completed,    \* mount points the current doMount call has mounted itself
    failedAt,     \* Len(log) when a stage of the current doMount call failed, else 0
    elapsed,      \* now - start of the spin-up loop, in ms (0 outside its scope)
    spinUp,       \* whether the device identity changed during the last spin-up
    fuseAtCall,   \* mFuseMounted when the current top-level call was made
    fuseAtUnmount, \* mFuseMounted when doUnmount last tested it (line 623)
    fmt,          \* the doFormat call: its arguments, locals and position
    prev          \* what the last doUnmount call followed (see HowEnded)

vars == <<vol, flags, dev, mounts, childAlive, pc, ret, op, result, log,
          completed, failedAt, elapsed, spinUp, fuseAtCall, fuseAtUnmount,
          fmt, prev>>

\* The observations that only the named steps write
hist == <<spinUp, fuseAtCall, fuseAtUnmount, prev>>

----------------------------------------------------------------------------
(* Program constants *)

\* usleep(50000): one poll interval, in ms
PollIntervalMs == 50

\* nanoseconds_to_milliseconds(now - start) > 5000
SpinUpTimeoutMs == 5000

\* kAsecPath / kSdcardFsPath
kAsecPath == <<"/mnt/secure/asec", "", "">>

\* An empty std::string path
NoPath == <<"", "", "">>

\* getId(): "public:major,minor", fixed at construction
VolId == "public:8,1"

\* getMountUserId()
MountUserId == "0"

\* VolumeManager::getStartedUsers(), in the iteration order of the set
StartedUsers == <<"0", "10", "11", "12">>

\* VolumeManager::getSharedStorageUser(user)
SharedStorageUser(u) == IF u \in {"10", "11"} THEN "0" ELSE u

\* The devices a volume is constructed for: what blkid finds on them
\* (fsType, fsUuid); the last one cannot be parsed.
Devices ==
    {[fsType |-> "vfat", fsUuid |-> "1234-ABCD"],
     [fsType |-> "exfat", fsUuid |-> ""],
     [fsType |-> "", fsUuid |-> ""]}

\* Times (ms after `start`) at which the overlay child makes the device
\* identity of mSdcardFsFull change; {} when it never does.
DevChanges == {{}, {0}, {30}, {5000}, {5020}}

----------------------------------------------------------------------------
(* Derived paths *)

\* Mutant of StableName: the volume id is used whatever the UUID is.
StableName_IdOnly(v) == VolId

\* "Use UUID as stable name, if available"
StableName(v) == IF v.mFsUuid # "" THEN v.mFsUuid ELSE VolId

RawPathOf(name) == <<"/mnt/media_rw", "", name>>
SdcardFsDefaultOf(name) == <<"/mnt/runtime/default", "", name>>
SdcardFsReadOf(name) == <<"/mnt/runtime/read", "", name>>
SdcardFsWriteOf(name) == <<"/mnt/runtime/write", "", name>>
SdcardFsFullOf(name) == <<"/mnt/runtime/full", "", name>>
GetFuseMountPathForUser(user, name) == <<"/mnt/user", user, name>>

OverlayPaths(v) ==
    <<v.mSdcardFsDefault, v.mSdcardFsRead, v.mSdcardFsWrite, v.mSdcardFsFull>>

Range(s) == {s[i] : i \in 1..Len(s)}

\* The started users other than the mount owner, in iteration order
IsSibling(u) == u # MountUserId
Siblings == SelectSeq(StartedUsers, IsSibling)

\* Mutant of IsSharing: the fan-out does not test the shared-storage user.
IsSharing_AnySibling(u) == u # MountUserId

\* The siblings the bind fan-out of doMount does not skip
IsSharing(u) == u # MountUserId /\ SharedStorageUser(u) = MountUserId
SharingUsers == SelectSeq(StartedUsers, IsSharing)

----------------------------------------------------------------------------
(* Construction *)

\* No doFormat call has been made on the volume
NoFormat ==
    [pc |-> "none", fsType |-> "", isVfatSup |-> FALSE, isExfatSup |-> FALSE,
     sizeQueried |-> FALSE, sizeRes |-> "none", size |-> <<0, 0>>,
     fsPick |-> "NONE",
     wipe |-> "none", formatted |-> "none", adapterRes |-> "none",
     adapterErrno |-> "none", errno |-> "0", res |-> "OK"]

Init ==
    /\ vol \in [mFuseMounted : {FALSE},
                mUseSdcardFs : BOOLEAN,
                mFsType : {""}, mFsUuid : {""},
                mRawPath : {NoPath},
                mSdcardFsDefault : {NoPath}, mSdcardFsRead : {NoPath},
                mSdcardFsWrite : {NoPath}, mSdcardFsFull : {NoPath},
                internalPath : {NoPath}, path : {NoPath}]
    /\ flags \in [primary : BOOLEAN, visible : BOOLEAN, callback : BOOLEAN]
    /\ dev \in Devices
    /\ mounts = {}
    /\ childAlive = FALSE
    /\ pc = "idle"
    /\ ret = "top"
    /\ op = "none"
    /\ result = "none"
    /\ log = <<>>
    /\ completed = {}
    /\ failedAt = 0
    /\ elapsed = 0
    /\ spinUp = "none"
    /\ fuseAtCall = FALSE
    /\ fuseAtUnmount = FALSE
    /\ fmt = NoFormat
    /\ prev = "none"

----------------------------------------------------------------------------
(* Returning from doMount *)

\* `return <status>` from doMount at a stage that failed
MountFail(status, newLog) ==
    /\ pc' = "idle"
    /\ result' = status
    /\ failedAt' = Len(newLog)
    /\ log' = newLog

\* `return OK` from doMount
MountOk(newLog) ==
    /\ pc' = "idle"
    /\ result' = "OK"
    /\ log' = newLog
    /\ UNCHANGED failedAt

----------------------------------------------------------------------------
(* doMount, lines 410-596 *)

\* What a doUnmount call follows: a doMount that returned at the spin-up
\* timeout of line 534, a doUnmount that returned at the failed bridge
\* unmount of line 646, or anything else.
HowEnded ==
    IF op = "doMount" /\ result = "ETIMEDOUT" THEN "timedOut"
    ELSE IF op = "doUnmount" /\ result = "ERRNO" THEN "bridgeBusy"
    ELSE "other"

\* The volume state machine (Idle -> ... -> Mounted -> Unmounting -> Idle):
\* the caller does not mount a volume it holds as mounted, that is, one
\* whose last operation was a successful doMount.
CallerMayMount == ~(op = "doMount" /\ result = "OK")

\* The caller invokes doMount; lines 411-412 and 370-377: visibility, then
\* readMetadata(), which stores what ReadMetadataUntrusted found on the
\* device (empty metadata for a device it cannot parse).
DoMount_ReadMetadata ==
    /\ pc = "idle"
    /\ CallerMayMount
    /\ vol' = [vol EXCEPT !.mFsType = dev.fsType, !.mFsUuid = dev.fsUuid]
    /\ pc' = "m_check"
    /\ op' = "doMount"
    /\ ret' = "top"
    /\ result' = "none"
    /\ log' = <<<<"metadata", "ReadMetadataUntrusted", NoPath>>>>
    /\ completed' = {}
    /\ failedAt' = 0
    /\ elapsed' = 0
    /\ UNCHANGED <<flags, dev, mounts, childAlive>>
    /\ spinUp' = "none"
    /\ fuseAtCall' = vol.mFuseMounted
    /\ fuseAtUnmount' = FALSE
    /\ prev' = "other"
    /\ UNCHANGED fmt

\* Mutant of DoMount_Check: a type without a supported adapter is not
\* refused.
DoMount_Check_IgnoresUnsupported ==
    /\ pc = "m_check"
    /\ \E supported \in BOOLEAN, checked \in BOOLEAN :
         IF vol.mFsType \in {"vfat", "exfat"} /\ supported
         THEN LET l == Append(log, <<"check", "Check", NoPath>>) IN
              IF checked
              THEN /\ pc' = "m_prepare"
                   /\ log' = l
                   /\ UNCHANGED <<result, failedAt>>
              ELSE MountFail("EIO", l)
         ELSE /\ pc' = "m_prepare"
              /\ UNCHANGED <<log, result, failedAt>>
    /\ UNCHANGED <<vol, flags, dev, mounts, childAlive, ret, op, completed, elapsed>>
    /\ UNCHANGED hist
    /\ UNCHANGED fmt

\* Lines 414-427: dispatch on the detected type, IsSupported() and Check().
DoMount_Check ==
    /\ pc = "m_check"
    /\ \E supported \in BOOLEAN, checked \in BOOLEAN :
         IF vol.mFsType \in {"vfat", "exfat"} /\ supported
         THEN LET l == Append(log, <<"check", "Check", NoPath>>) IN
              IF checked
              THEN /\ pc' = "m_prepare"
                   /\ log' = l
                   /\ UNCHANGED <<result, failedAt>>
              ELSE MountFail("EIO", l)
         ELSE MountFail("EIO", log)
    /\ UNCHANGED <<vol, flags, dev, mounts, childAlive, ret, op, completed, elapsed>>
    /\ UNCHANGED hist
    /\ UNCHANGED fmt

\* Lines 429-447: the stable name and every path derived from it.
AssignPaths(v, isVisible) ==
    LET stableName == StableName(v) IN
    [v EXCEPT !.mRawPath = RawPathOf(stableName),
              !.mSdcardFsDefault = SdcardFsDefaultOf(stableName),
              !.mSdcardFsRead = SdcardFsReadOf(stableName),
              !.mSdcardFsWrite = SdcardFsWriteOf(stableName),
              !.mSdcardFsFull = SdcardFsFullOf(stableName),
              !.internalPath = RawPathOf(stableName),
              !.path = IF isVisible THEN <<"/storage", "", stableName>>
                       ELSE RawPathOf(stableName)]

\* Lines 429-452: assign the paths, then fs_prepare_dir(mRawPath).
DoMount_PrepareRaw ==
    /\ pc = "m_prepare"
    /\ vol' = AssignPaths(vol, flags.visible)
    /\ LET l == Append(log, <<"prepareRaw", "fs_prepare_dir", vol'.mRawPath>>) IN
       \E prepared \in BOOLEAN :
         IF prepared
         THEN /\ pc' = "m_mount"
              /\ log' = l
              /\ UNCHANGED <<result, failedAt>>
         ELSE MountFail("ERRNO", l)
    /\ UNCHANGED <<flags, dev, mounts, childAlive, ret, op, completed, elapsed>>
    /\ UNCHANGED hist
    /\ UNCHANGED fmt

\* Lines 454-466: vfat::Mount / exfat::Mount of the device on mRawPath.
DoMount_MountRaw ==
    /\ pc = "m_mount"
    /\ IF vol.mFsType \in {"vfat", "exfat"}
       THEN LET l == Append(log, <<"mountRaw", "Mount", vol.mRawPath>>) IN
            \E mounted \in BOOLEAN :
              IF mounted
              THEN /\ mounts' = mounts \cup {vol.mRawPath}
                   /\ completed' = completed \cup {vol.mRawPath}
                   /\ pc' = "m_asec"
                   /\ log' = l
                   /\ UNCHANGED <<result, failedAt>>
              ELSE /\ MountFail("EIO", l)
                   /\ UNCHANGED <<mounts, completed>>
       ELSE /\ pc' = "m_asec"
            /\ UNCHANGED <<mounts, completed, log, result, failedAt>>
    /\ UNCHANGED <<vol, flags, dev, childAlive, ret, op, elapsed>>
    /\ UNCHANGED hist
    /\ UNCHANGED fmt

\* Lines 379-400: initAsecStage(); the probe of the legacy directory (and
\* its rename, whose status is not read), mkdir of the secure directory,
\* then BindMount(securePath, kAsecPath), whose status is not read.
InitAsecStage(l, m, c, made, bound) ==
    LET probed == l \o <<<<"asec", "access", vol.mRawPath>>,
                         <<"asec", "mkdir", vol.mRawPath>>>>
    IN
    IF ~made
    THEN [log |-> probed, mounts |-> m, completed |-> c]
    ELSE [log |-> Append(probed, <<"asec", "BindMount", kAsecPath>>),
          mounts |-> IF bound THEN m \cup {kAsecPath} ELSE m,
          completed |-> IF bound THEN c \cup {kAsecPath} ELSE c]

\* Mutant of StagesAsec: the staging does not test the primary flag.
StagesAsec_Always(f) == TRUE

\* The primary flag decides whether the secure-app staging runs (line 468).
StagesAsec(f) == f.primary

\* Mutant of DoMount_Asec: the early return does not test the visibility.
DoMount_Asec_IgnoresVisibility ==
    /\ pc = "m_asec"
    /\ \E made \in BOOLEAN, bound \in BOOLEAN :
         LET r == IF StagesAsec(flags)
                  THEN InitAsecStage(log, mounts, completed, made, bound)
                  ELSE [log |-> log, mounts |-> mounts, completed |-> completed]
         IN /\ mounts' = r.mounts
            /\ completed' = r.completed
            /\ pc' = IF vol.mUseSdcardFs THEN "m_overlay" ELSE "m_fuse"
            /\ log' = r.log
            /\ UNCHANGED <<result, failedAt>>
    /\ UNCHANGED <<vol, flags, dev, childAlive, ret, op, elapsed>>
    /\ UNCHANGED hist
    /\ UNCHANGED fmt

\* Lines 468-475: secure-app staging for a primary volume, then the early
\* successful return of a volume that is not visible.
DoMount_Asec ==
    /\ pc = "m_asec"
    /\ \E made \in BOOLEAN, bound \in BOOLEAN :
         LET r == IF StagesAsec(flags)
                  THEN InitAsecStage(log, mounts, completed, made, bound)
                  ELSE [log |-> log, mounts |-> mounts, completed |-> completed]
         IN /\ mounts' = r.mounts
            /\ completed' = r.completed
            /\ IF ~flags.visible
               THEN MountOk(r.log)
               ELSE /\ pc' = IF vol.mUseSdcardFs THEN "m_overlay" ELSE "m_fuse"
                    /\ log' = r.log
                    /\ UNCHANGED <<result, failedAt>>
    /\ UNCHANGED <<vol, flags, dev, childAlive, ret, op, elapsed>>
    /\ UNCHANGED hist
    /\ UNCHANGED fmt

\* The fs_prepare_dir calls of lines 478-481 made when the first `nOk`
\* of them succeed: the || chain stops at the first failure.
PrepareOverlayLog(l, v, nOk) ==
    LET n == IF nOk < 4 THEN nOk + 1 ELSE 4
        calls == [i \in 1..n |-> <<"prepareOverlay", "fs_prepare_dir", OverlayPaths(v)[i]>>]
    IN l \o calls

\* Lines 477-486: prepare the four overlay mount points, capture the device
\* identity of mSdcardFsFull.
DoMount_PrepareOverlay ==
    /\ pc = "m_overlay"
    /\ \E nOk \in 0..4 :
         LET l == PrepareOverlayLog(log, vol, nOk) IN
         IF nOk = 4
         THEN /\ pc' = "m_fork"
              /\ log' = Append(l, <<"prepareOverlay", "GetDevice", vol.mSdcardFsFull>>)
              /\ UNCHANGED <<result, failedAt>>
         ELSE MountFail("ERRNO", l)
    /\ UNCHANGED <<vol, flags, dev, mounts, childAlive, ret, op, completed, elapsed>>
    /\ UNCHANGED hist
    /\ UNCHANGED fmt

\* Lines 488-524: fork(); the child execs sdcardfs, the parent goes on.
DoMount_Fork ==
    /\ pc = "m_fork"
    /\ LET l == Append(log, <<"fork", "fork", NoPath>>) IN
       \E forked \in BOOLEAN :
         IF forked
         THEN /\ childAlive' = TRUE
              /\ pc' = "m_poll"
              /\ log' = l
              /\ UNCHANGED <<result, failedAt>>
         ELSE /\ MountFail("ERRNO", l)
              /\ UNCHANGED childAlive
    /\ UNCHANGED <<vol, flags, dev, mounts, ret, op, completed, elapsed>>
    /\ UNCHANGED hist
    /\ UNCHANGED fmt

\* Mutant of TimedOut: the budget test allows one poll interval too many.
TimedOut_OneRoundLate(ms) == ms > SpinUpTimeoutMs + PollIntervalMs

\* Line 532: the budget is spent once more than 5000 ms have elapsed.
TimedOut(ms) == ms > SpinUpTimeoutMs

\* The rounds of the poll loop of lines 526-536, counted from its entry:
\* the budget of line 532 ends the loop within them.
PollRounds == 0..(SpinUpTimeoutMs \div PollIntervalMs + 2)

\* Lines 526-536: the poll loop, entered `now` ms after `start`.  `change`
\* holds the time at which the device identity of mSdcardFsFull starts to
\* differ from `before` (empty: never).  Each round compares, sleeps one
\* poll interval and then reads the clock: round k compares at clock(k),
\* and the clock read after the sleep of round k - 1 is clock(k).  The loop
\* leaves at the first round that sees the change, unless an earlier or
\* the same clock reading had spent the budget.
SpinUpWait(now, change) ==
    LET clock(k) == now + k * PollIntervalMs
        seen == {k \in PollRounds : \E t \in change : t <= clock(k)}
        late == {k \in PollRounds \ {0} : TimedOut(clock(k))}
        First(S) == CHOOSE k \in S : \A j \in S : k <= j
    IN IF seen # {} /\ (late = {} \/ First(seen) < First(late))
       THEN [timedOut |-> FALSE, elapsed |-> clock(First(seen))]
       ELSE [timedOut |-> TRUE, elapsed |-> clock(First(late))]

\* What the sdcardfs child mounts when it spins up: the four overlay views.
OverlaySet(v) == Range(OverlayPaths(v))

\* Mutant of DoMount_Poll: the loop gives up at the timeout and goes on to
\* the bridge instead of returning.
DoMount_Poll_GoesOnAtTimeout ==
    /\ pc = "m_poll"
    /\ \E change \in DevChanges :
         LET r == SpinUpWait(0, change)
             l == Append(log, <<"spinUp", "GetDevice", vol.mSdcardFsFull>>)
         IN /\ elapsed' = r.elapsed
            /\ spinUp' = IF change = {} THEN "unchanged" ELSE "changed"
            /\ mounts' = IF change = {} THEN mounts ELSE mounts \cup OverlaySet(vol)
            /\ completed' = IF r.timedOut THEN completed
                            ELSE completed \cup OverlaySet(vol)
            /\ pc' = "m_waitpid"
            /\ log' = l
            /\ UNCHANGED <<result, failedAt, childAlive>>
    /\ UNCHANGED <<vol, flags, dev, ret, op>>
    /\ UNCHANGED <<fuseAtCall, fuseAtUnmount, prev>>
    /\ UNCHANGED fmt

\* Lines 526-536: wait for sdcardfs to spin up, or time out.
DoMount_Poll ==
    /\ pc = "m_poll"
    /\ \E change \in DevChanges :
         LET r == SpinUpWait(0, change)
             l == Append(log, <<"spinUp", "GetDevice", vol.mSdcardFsFull>>)
         IN /\ elapsed' = r.elapsed
            /\ spinUp' = IF change = {} THEN "unchanged" ELSE "changed"
            /\ mounts' = IF change = {} THEN mounts ELSE mounts \cup OverlaySet(vol)
            /\ completed' = IF r.timedOut THEN completed
                            ELSE completed \cup OverlaySet(vol)
            /\ IF r.timedOut
               THEN /\ MountFail("ETIMEDOUT", l)
                    /\ childAlive' = FALSE
               ELSE /\ pc' = "m_waitpid"
                    /\ log' = l
                    /\ UNCHANGED <<result, failedAt, childAlive>>
    /\ UNCHANGED <<vol, flags, dev, ret, op>>
    /\ UNCHANGED <<fuseAtCall, fuseAtUnmount, prev>>
    /\ UNCHANGED fmt

\* Line 538: waitpid(sdcardFsPid, nullptr, 0) returns once the child exited.
DoMount_Waitpid ==
    /\ pc = "m_waitpid"
    /\ ~childAlive
    /\ pc' = "m_fuse"
    /\ log' = Append(log, <<"reap", "waitpid", NoPath>>)
    /\ elapsed' = 0
    /\ UNCHANGED <<vol, flags, dev, mounts, childAlive, ret, op, result,
                   completed, failedAt>>
    /\ UNCHANGED hist
    /\ UNCHANGED fmt

\* Lines 489-519, the child: sdcardfs (or the failed exec) exits.
ChildExit ==
    /\ childAlive
    /\ childAlive' = FALSE
    /\ UNCHANGED <<vol, flags, dev, mounts, pc, ret, op, result, log,
                   completed, failedAt, elapsed>>
    /\ UNCHANGED hist
    /\ UNCHANGED fmt

\* Mutant of DoMount_Fuse: mFuseMounted is set before the result is tested.
DoMount_Fuse_FlagBeforeTest ==
    /\ pc = "m_fuse"
    /\ LET fusePath == GetFuseMountPathForUser(MountUserId, StableName(vol))
           l == Append(log, <<"bridge", "MountUserFuse", fusePath>>)
       IN \E mounted \in BOOLEAN :
            /\ vol' = [vol EXCEPT !.mFuseMounted = TRUE]
            /\ log' = l
            /\ IF mounted
               THEN /\ mounts' = mounts \cup {fusePath}
                    /\ completed' = completed \cup {fusePath}
                    /\ pc' = "m_ready"
                    /\ UNCHANGED <<ret, failedAt>>
               ELSE /\ pc' = "u_kill"
                    /\ ret' = "fuseFailed"
                    /\ failedAt' = Len(l)
                    /\ UNCHANGED <<mounts, completed>>
    /\ UNCHANGED <<flags, dev, childAlive, op, result, elapsed>>
    /\ UNCHANGED hist
    /\ UNCHANGED fmt

\* Mutant of DoMount_Fuse: a failed MountUserFuse is not tested and the
\* pipeline goes on to the readiness callback.
DoMount_Fuse_IgnoresFailure ==
    /\ pc = "m_fuse"
    /\ LET fusePath == GetFuseMountPathForUser(MountUserId, StableName(vol))
           l == Append(log, <<"bridge", "MountUserFuse", fusePath>>)
       IN \E mounted \in BOOLEAN :
            /\ mounts' = IF mounted THEN mounts \cup {fusePath} ELSE mounts
            /\ completed' = IF mounted THEN completed \cup {fusePath} ELSE completed
            /\ vol' = [vol EXCEPT !.mFuseMounted = TRUE]
            /\ pc' = "m_ready"
            /\ log' = l
            /\ UNCHANGED <<ret, failedAt>>
    /\ UNCHANGED <<flags, dev, childAlive, op, result, elapsed>>
    /\ UNCHANGED hist
    /\ UNCHANGED fmt

\* Lines 543-554: MountUserFuse; on failure doUnmount() and return -result.
DoMount_Fuse ==
    /\ pc = "m_fuse"
    /\ LET fusePath == GetFuseMountPathForUser(MountUserId, StableName(vol))
           l == Append(log, <<"bridge", "MountUserFuse", fusePath>>)
       IN \E mounted \in BOOLEAN :
            IF mounted
            THEN /\ mounts' = mounts \cup {fusePath}
                 /\ completed' = completed \cup {fusePath}
                 /\ vol' = [vol EXCEPT !.mFuseMounted = TRUE]
                 /\ pc' = "m_ready"
                 /\ log' = l
                 /\ UNCHANGED <<ret, failedAt>>
            ELSE /\ pc' = "u_kill"
                 /\ ret' = "fuseFailed"
                 /\ failedAt' = Len(l)
                 /\ log' = l
                 /\ UNCHANGED <<mounts, completed, vol>>
    /\ UNCHANGED <<flags, dev, childAlive, op, result, elapsed>>
    /\ UNCHANGED hist
    /\ UNCHANGED fmt

\* Lines 555-564: the readiness callback; not ready: doUnmount(), -EIO.
DoMount_Callback ==
    /\ pc = "m_ready"
    /\ IF flags.callback
       THEN LET l == Append(log, <<"ready", "onVolumeChecking", vol.path>>) IN
            \E isReady \in BOOLEAN :
              IF isReady
              THEN /\ pc' = "m_bind"
                   /\ log' = l
                   /\ UNCHANGED <<ret, failedAt>>
              ELSE /\ pc' = "u_kill"
                   /\ ret' = "notReady"
                   /\ failedAt' = Len(l)
                   /\ log' = l
       ELSE /\ pc' = "m_bind"
            /\ UNCHANGED <<log, ret, failedAt>>
    /\ UNCHANGED <<vol, flags, dev, mounts, childAlive, op, result, completed, elapsed>>
    /\ UNCHANGED hist
    /\ UNCHANGED fmt

\* Lines 585-593 and 598-614 for one user: PrepareMountDirForUser (a failure
\* is logged), then bindMountForUser: PrepareDir and BindMount (a failure is
\* logged).
BindCalls(user, name, dirOk, bindOk) ==
    LET dir == <<"/mnt/user", user, "">>
        dest == GetFuseMountPathForUser(user, name)
    IN <<<<"fanOut", "PrepareMountDirForUser", dir>>>>
       \o (IF dirOk THEN <<>> ELSE <<<<"fanOut", "LOG_ERROR_MountDir", dir>>>>)
       \o <<<<"fanOut", "PrepareDir", dest>>, <<"fanOut", "BindMount", dest>>>>
       \o (IF bindOk THEN <<>> ELSE <<<<"fanOut", "LOG_ERROR_BindMount", dest>>>>)

\* The calls of the loop of lines 573-594 over `users`, whatever the earlier
\* users' statuses were; dirOk and bound are the users whose directory
\* creation and bind mount succeed.
BindLog(users, name, dirOk, bound) ==
    LET F[i \in 0..Len(users)] ==
            IF i = 0 THEN <<>>
            ELSE F[i - 1] \o BindCalls(users[i], name, users[i] \in dirOk,
                                       users[i] \in bound)
    IN F[Len(users)]

\* Lines 566-596: bridge tuning, then the bind fan-out; return OK.
DoMount_BindFanOut ==
    /\ pc = "m_bind"
    /\ LET name == StableName(vol)
           fusePath == GetFuseMountPathForUser(MountUserId, name)
           tuned == log \o <<<<"tune", "ConfigureReadAheadForFuse", fusePath>>,
                             <<"tune", "ConfigureMaxDirtyRatioForFuse", fusePath>>>>
       IN \E dirOk \in SUBSET Range(SharingUsers), bound \in SUBSET Range(SharingUsers) :
            /\ mounts' = mounts \cup {GetFuseMountPathForUser(u, name) : u \in bound}
            /\ MountOk(tuned \o BindLog(SharingUsers, name, dirOk, bound))
    /\ UNCHANGED <<vol, flags, dev, childAlive, ret, op, completed, elapsed>>
    /\ UNCHANGED hist
    /\ UNCHANGED fmt

----------------------------------------------------------------------------
(* doUnmount, lines 616-682 *)

\* `return <status>` from doUnmount: to the caller, or into doMount's
\* rollback sites (lines 550-551 and 561-562), which drop the status and
\* return their own error.
UnmountReturn(status) ==
    /\ pc' = "idle"
    /\ result' = CASE ret = "top" -> status
                   [] ret = "fuseFailed" -> "EFUSE"
                   [] OTHER -> "EIO"

\* The caller invokes doUnmount.
DoUnmount_Call ==
    /\ pc = "idle"
    /\ pc' = "u_kill"
    /\ op' = "doUnmount"
    /\ ret' = "top"
    /\ result' = "none"
    /\ log' = <<>>
    /\ completed' = {}
    /\ failedAt' = 0
    /\ elapsed' = 0
    /\ UNCHANGED <<vol, flags, dev, mounts, childAlive>>
    /\ spinUp' = "none"
    /\ fuseAtCall' = vol.mFuseMounted
    /\ fuseAtUnmount' = FALSE
    /\ prev' = HowEnded
    /\ UNCHANGED fmt

\* Mutant of DoUnmount_Kill: with the bridge mounted, the owner's bridge is
\* torn down without the sibling bind mounts being removed first.
DoUnmount_Kill_BridgeFirst ==
    /\ pc = "u_kill"
    /\ log' = Append(log, <<"kill", "KillProcessesUsingPath", vol.path>>)
    /\ pc' = IF vol.mFuseMounted THEN "u_fuse" ELSE "u_asec"
    /\ UNCHANGED <<vol, flags, dev, mounts, childAlive, ret, op, result,
                   completed, failedAt, elapsed>>
    /\ fuseAtUnmount' = vol.mFuseMounted
    /\ UNCHANGED <<spinUp, fuseAtCall, prev>>
    /\ UNCHANGED fmt

\* Mutant of DoUnmount_Kill: the bridge teardown does not test mFuseMounted.
DoUnmount_Kill_AlwaysBridge ==
    /\ pc = "u_kill"
    /\ log' = Append(log, <<"kill", "KillProcessesUsingPath", vol.path>>)
    /\ pc' = "u_siblings"
    /\ UNCHANGED <<vol, flags, dev, mounts, childAlive, ret, op, result,
                   completed, failedAt, elapsed>>
    /\ fuseAtUnmount' = vol.mFuseMounted
    /\ UNCHANGED <<spinUp, fuseAtCall, prev>>
    /\ UNCHANGED fmt

\* Lines 621-623: KillProcessesUsingPath(getPath()), then the test of
\* mFuseMounted.
DoUnmount_Kill ==
    /\ pc = "u_kill"
    /\ log' = Append(log, <<"kill", "KillProcessesUsingPath", vol.path>>)
    /\ pc' = IF vol.mFuseMounted THEN "u_siblings" ELSE "u_asec"
    /\ UNCHANGED <<vol, flags, dev, mounts, childAlive, ret, op, result,
                   completed, failedAt, elapsed>>
    /\ fuseAtUnmount' = vol.mFuseMounted
    /\ UNCHANGED <<spinUp, fuseAtCall, prev>>
    /\ UNCHANGED fmt

\* ForceUnmount and rmdir of each user's bind mount, in order (lines 638-641)
SiblingLog(users, name) ==
    LET calls(i) == <<<<"umSiblings", "ForceUnmount", GetFuseMountPathForUser(users[i], name)>>,
                      <<"umSiblings", "rmdir", GetFuseMountPathForUser(users[i], name)>>>>
        F[i \in 0..Len(users)] == IF i = 0 THEN <<>> ELSE F[i - 1] \o calls(i)
    IN F[Len(users)]

\* Lines 624-642: remove the bind mount of every started user but the owner.
DoUnmount_Siblings ==
    /\ pc = "u_siblings"
    /\ LET name == StableName(vol) IN
       \E freed \in SUBSET Range(Siblings) :
         /\ mounts' = mounts \ {GetFuseMountPathForUser(u, name) : u \in freed}
         /\ log' = log \o SiblingLog(Siblings, name)
    /\ pc' = "u_fuse"
    /\ UNCHANGED <<vol, flags, dev, childAlive, ret, op, result,
                   completed, failedAt, elapsed>>
    /\ UNCHANGED hist
    /\ UNCHANGED fmt

\* Mutant of DoUnmount_Fuse: mFuseMounted is cleared whatever
\* UnmountUserFuse returned.
DoUnmount_Fuse_ClearsAlways ==
    /\ pc = "u_fuse"
    /\ LET fusePath == GetFuseMountPathForUser(MountUserId, StableName(vol)) IN
       \E unmounted \in BOOLEAN :
         /\ log' = Append(log, <<"umBridge", "UnmountUserFuse", fusePath>>)
         /\ vol' = [vol EXCEPT !.mFuseMounted = FALSE]
         /\ IF unmounted
            THEN /\ mounts' = mounts \ {fusePath}
                 /\ pc' = "u_asec"
                 /\ UNCHANGED result
            ELSE /\ UnmountReturn("ERRNO")
                 /\ UNCHANGED mounts
    /\ UNCHANGED <<flags, dev, childAlive, ret, op, completed, failedAt, elapsed>>
    /\ UNCHANGED hist
    /\ UNCHANGED fmt

\* Mutant of DoUnmount_Fuse: a failed UnmountUserFuse returns its error
\* after clearing mFuseMounted and mRawPath.
DoUnmount_Fuse_ForgetsOnFailure ==
    /\ pc = "u_fuse"
    /\ LET fusePath == GetFuseMountPathForUser(MountUserId, StableName(vol)) IN
       \E unmounted \in BOOLEAN :
         /\ log' = Append(log, <<"umBridge", "UnmountUserFuse", fusePath>>)
         /\ IF unmounted
            THEN /\ mounts' = mounts \ {fusePath}
                 /\ vol' = [vol EXCEPT !.mFuseMounted = FALSE]
                 /\ pc' = "u_asec"
                 /\ UNCHANGED result
            ELSE /\ UnmountReturn("ERRNO")
                 /\ vol' = [vol EXCEPT !.mFuseMounted = FALSE, !.mRawPath = NoPath]
                 /\ UNCHANGED mounts
    /\ UNCHANGED <<flags, dev, childAlive, ret, op, completed, failedAt, elapsed>>
    /\ UNCHANGED hist
    /\ UNCHANGED fmt

\* Lines 644-650: UnmountUserFuse; on failure return -errno, else clear
\* mFuseMounted.
DoUnmount_Fuse ==
    /\ pc = "u_fuse"
    /\ LET fusePath == GetFuseMountPathForUser(MountUserId, StableName(vol)) IN
       \E unmounted \in BOOLEAN :
         /\ log' = Append(log, <<"umBridge", "UnmountUserFuse", fusePath>>)
         /\ IF unmounted
            THEN /\ mounts' = mounts \ {fusePath}
                 /\ vol' = [vol EXCEPT !.mFuseMounted = FALSE]
                 /\ pc' = "u_asec"
                 /\ UNCHANGED result
            ELSE /\ UnmountReturn("ERRNO")
                 /\ UNCHANGED <<mounts, vol>>
    /\ UNCHANGED <<flags, dev, childAlive, ret, op, completed, failedAt, elapsed>>
    /\ UNCHANGED hist
    /\ UNCHANGED fmt

\* Mutant of DoUnmount_Asec: a failed ForceUnmount(kAsecPath) returns
\* its error instead of going on.
DoUnmount_Asec_ShortCircuit ==
    /\ pc = "u_asec"
    /\ log' = Append(log, <<"umAsec", "ForceUnmount", kAsecPath>>)
    /\ \E unmounted \in BOOLEAN :
         IF unmounted
         THEN /\ mounts' = mounts \ {kAsecPath}
              /\ pc' = IF vol.mUseSdcardFs THEN "u_overlay" ELSE "u_raw"
              /\ UNCHANGED result
         ELSE /\ UnmountReturn("ERRNO")
              /\ UNCHANGED mounts
    /\ UNCHANGED <<vol, flags, dev, childAlive, ret, op, completed, failedAt, elapsed>>
    /\ UNCHANGED hist
    /\ UNCHANGED fmt

\* Line 652: ForceUnmount(kAsecPath), then the test of mUseSdcardFs.
DoUnmount_Asec ==
    /\ pc = "u_asec"
    /\ \E unmounted \in BOOLEAN :
         mounts' = IF unmounted THEN mounts \ {kAsecPath} ELSE mounts
    /\ log' = Append(log, <<"umAsec", "ForceUnmount", kAsecPath>>)
    /\ pc' = IF vol.mUseSdcardFs THEN "u_overlay" ELSE "u_raw"
    /\ UNCHANGED <<vol, flags, dev, childAlive, ret, op, result,
                   completed, failedAt, elapsed>>
    /\ UNCHANGED hist
    /\ UNCHANGED fmt

\* Mutant of ClearOverlayPaths: the overlay path fields are left as they
\* were.
ClearOverlayPaths_KeepsPaths(v) == v

\* Lines 665-668: the overlay path fields after the overlay teardown.
ClearOverlayPaths(v) ==
    [v EXCEPT !.mSdcardFsDefault = NoPath, !.mSdcardFsRead = NoPath,
              !.mSdcardFsWrite = NoPath, !.mSdcardFsFull = NoPath]

\* Lines 654-669: ForceUnmount and rmdir of the four overlay paths, then
\* clear them.  `freed` are the paths whose ForceUnmount succeeded.
DoUnmount_Overlay ==
    /\ pc = "u_overlay"
    /\ LET paths == OverlayPaths(vol)
           unmounts == [i \in 1..4 |-> <<"umOverlay", "ForceUnmount", paths[i]>>]
           rmdirs == [i \in 1..4 |-> <<"umOverlay", "rmdir", paths[i]>>]
       IN \E freed \in SUBSET Range(paths) :
            /\ mounts' = mounts \ freed
            /\ vol' = ClearOverlayPaths(vol)
            /\ log' = (log \o unmounts) \o rmdirs
    /\ pc' = "u_raw"
    /\ UNCHANGED <<flags, dev, childAlive, ret, op, result, completed,
                   failedAt, elapsed>>
    /\ UNCHANGED hist
    /\ UNCHANGED fmt

\* Mutant of DoUnmount_Raw: a failed ForceUnmount(mRawPath) returns its
\* error at once, without the detached unmount.
DoUnmount_Raw_NoEscalation ==
    /\ pc = "u_raw"
    /\ \E forced \in BOOLEAN :
         /\ log' = Append(log, <<"umRaw", "ForceUnmount", vol.mRawPath>>)
         /\ IF forced
            THEN /\ mounts' = mounts \ {vol.mRawPath}
                 /\ pc' = "u_rmdir"
                 /\ UNCHANGED result
            ELSE /\ UnmountReturn("ERRNO")
                 /\ UNCHANGED mounts
    /\ UNCHANGED <<vol, flags, dev, childAlive, ret, op, completed,
                   failedAt, elapsed>>
    /\ UNCHANGED hist
    /\ UNCHANGED fmt

\* Lines 671-674: ForceUnmount(mRawPath); when it fails, the detached
\* umount2(mRawPath, MNT_DETACH), whose status is not read.
DoUnmount_Raw ==
    /\ pc = "u_raw"
    /\ \E forced \in BOOLEAN, detached \in BOOLEAN :
         LET l == Append(log, <<"umRaw", "ForceUnmount", vol.mRawPath>>) IN
         IF forced
         THEN /\ mounts' = mounts \ {vol.mRawPath}
              /\ log' = l
         ELSE /\ mounts' = IF detached THEN mounts \ {vol.mRawPath} ELSE mounts
              /\ log' = Append(l, <<"umRaw", "umount2_MNT_DETACH", vol.mRawPath>>)
    /\ pc' = "u_rmdir"
    /\ UNCHANGED <<vol, flags, dev, childAlive, ret, op, result, completed,
                   failedAt, elapsed>>
    /\ UNCHANGED hist
    /\ UNCHANGED fmt

\* Line 679: the raw path field after the raw teardown.
ClearRawPath(v) == [v EXCEPT !.mRawPath = NoPath]

\* Lines 675-681: rmdir(mRawPath); when it fails, kill the processes using
\* the public path again; clear mRawPath; return OK.
DoUnmount_Rmdir ==
    /\ pc = "u_rmdir"
    /\ \E removed \in BOOLEAN :
         LET l == Append(log, <<"rmRaw", "rmdir", vol.mRawPath>>) IN
         log' = IF removed THEN l
                ELSE Append(l, <<"rmRaw", "KillProcessesUsingPath", vol.path>>)
    /\ vol' = ClearRawPath(vol)
    /\ UnmountReturn("OK")
    /\ UNCHANGED <<flags, dev, mounts, childAlive, ret, op, completed,
                   failedAt, elapsed>>
    /\ UNCHANGED hist
    /\ UNCHANGED fmt

----------------------------------------------------------------------------

DoMount ==
    \/ DoMount_ReadMetadata
    \/ DoMount_Check
    \/ DoMount_PrepareRaw
    \/ DoMount_MountRaw
    \/ DoMount_Asec
    \/ DoMount_PrepareOverlay
    \/ DoMount_Fork
    \/ DoMount_Poll
    \/ DoMount_Waitpid
    \/ DoMount_Fuse
    \/ DoMount_Callback
    \/ DoMount_BindFanOut

DoUnmount ==
    \/ DoUnmount_Call
    \/ DoUnmount_Kill
    \/ DoUnmount_Siblings
    \/ DoUnmount_Fuse
    \/ DoUnmount_Asec
    \/ DoUnmount_Overlay
    \/ DoUnmount_Raw
    \/ DoUnmount_Rmdir

Next == DoMount \/ DoUnmount \/ ChildExit

Spec == Init /\ [][Next]_vars

----------------------------------------------------------------------------
(* doFormat, lines 684-739 *)

\* doFormat reads mDevPath and getId() only, which doMount and doUnmount do
\* not write, and runs on an unmounted volume: it is checked on its own,
\* under FormatSpec, from every constructed volume.

\* The fsType arguments: the automatic request, the two known types and a
\* type string no branch matches
FormatRequests == {"auto", "vfat", "exfat", "ntfs"}

\* 32896LL * 1024 * 1024 bytes, as whole MiB (line 702)
ThresholdMiB == 32896

\* Bytes in one MiB (the factor 1024 * 1024 of line 702)
BytesPerMiB == 1048576

\* A uint64_t size in bytes is held as <<whole MiB, remaining bytes>>, the
\* second below BytesPerMiB.  The sizes GetBlockDevSize reports: an empty
\* device, one byte below the threshold, the threshold, one byte above it,
\* and twice the threshold.
DeviceSizes ==
    {<<0, 0>>, <<ThresholdMiB - 1, BytesPerMiB - 1>>, <<ThresholdMiB, 0>>,
     <<ThresholdMiB, 1>>, <<2 * ThresholdMiB, 0>>}

\* The errno values a failing primitive leaves; "0" when none was set
Errnos == {"EIO", "ENOSPC"}

\* -errno as a status_t: -0 is OK
NegErrno(e) ==
    CASE e = "0" -> "OK"
      [] e = "EIO" -> "-EIO"
      [] e = "ENOSPC" -> "-ENOSPC"

\* Mutant of ExceedsThreshold: the comparison is size >= threshold.
ExceedsThreshold_AtOrAbove(size) == size[1] >= ThresholdMiB

\* Line 702: size > 32896LL * 1024 * 1024
ExceedsThreshold(size) ==
    \/ size[1] > ThresholdMiB
    \/ size[1] = ThresholdMiB /\ size[2] > 0

\* Mutant of NeedsSize: every automatic request queries the size.
NeedsSize_AnyAuto(f) == f.fsType = "auto"

\* Line 692: the automatic request with both types supported
NeedsSize(f) == f.fsType = "auto" /\ f.isVfatSup /\ f.isExfatSup

\* Mutant of ExplicitPick: the explicit request does not test the support.
ExplicitPick_IgnoresSupport(f) ==
    IF f.fsType = "vfat" THEN "VFAT"
    ELSE IF f.fsType = "exfat" THEN "EXFAT"
    ELSE f.fsPick

\* Lines 713-718: fsPick after "Resolve explicit requests"
ExplicitPick(f) ==
    IF f.fsType = "vfat" /\ f.isVfatSup THEN "VFAT"
    ELSE IF f.fsType = "exfat" /\ f.isExfatSup THEN "EXFAT"
    ELSE f.fsPick

\* Mutant of FormatResult: doFormat returns the status the adapter returned.
FormatResult_AdapterStatus(adapterRes, e) == adapterRes

\* Lines 733-738: the status returned after the adapter's Format
FormatResult(adapterRes, e) ==
    IF adapterRes # "OK" THEN NegErrno(e) ELSE adapterRes

\* The caller invokes doFormat(fsType); lines 685-689.
DoFormat_Call ==
    /\ pc = "idle"
    /\ fmt.pc = "none"
    /\ \E t \in FormatRequests, v \in BOOLEAN, x \in BOOLEAN :
         fmt' = [fmt EXCEPT !.pc = "auto", !.fsType = t,
                            !.isVfatSup = v, !.isExfatSup = x]
    /\ UNCHANGED <<vol, flags, dev, mounts, childAlive, pc, ret, op, result,
                   log, completed, failedAt, elapsed>>
    /\ UNCHANGED hist

\* fsPick after the branches of lines 707-711, which read no size
PickWithoutSize(f) ==
    IF f.fsType = "auto" /\ f.isExfatSup THEN "EXFAT"
    ELSE IF f.fsType = "auto" /\ f.isVfatSup THEN "VFAT"
    ELSE "NONE"

\* Mutant of DoFormat_ResolveAuto: the status of the size query is not
\* tested and the size left at 0 decides.
DoFormat_ResolveAuto_IgnoresSizeError ==
    /\ fmt.pc = "auto"
    /\ IF NeedsSize(fmt)
       THEN \E sized \in BOOLEAN, size \in DeviceSizes :
              IF sized
              THEN fmt' = [fmt EXCEPT !.pc = "explicit", !.sizeQueried = TRUE,
                                      !.sizeRes = "OK", !.size = size,
                                      !.fsPick = IF ExceedsThreshold(size)
                                                 THEN "EXFAT" ELSE "VFAT"]
              ELSE fmt' = [fmt EXCEPT !.pc = "explicit", !.sizeQueried = TRUE,
                                      !.sizeRes = "-EIO", !.fsPick = "VFAT"]
       ELSE fmt' = [fmt EXCEPT !.pc = "explicit", !.fsPick = PickWithoutSize(fmt)]
    /\ UNCHANGED <<vol, flags, dev, mounts, childAlive, pc, ret, op, result,
                   log, completed, failedAt, elapsed>>
    /\ UNCHANGED hist

\* Lines 691-711: resolve the automatic request; with both types supported
\* the device size decides, and a failed size query returns its status.
DoFormat_ResolveAuto ==
    /\ fmt.pc = "auto"
    /\ IF NeedsSize(fmt)
       THEN \E sized \in BOOLEAN, size \in DeviceSizes :
              IF sized
              THEN fmt' = [fmt EXCEPT !.pc = "explicit", !.sizeQueried = TRUE,
                                      !.sizeRes = "OK", !.size = size,
                                      !.fsPick = IF ExceedsThreshold(size)
                                                 THEN "EXFAT" ELSE "VFAT"]
              ELSE fmt' = [fmt EXCEPT !.pc = "done", !.sizeQueried = TRUE,
                                      !.sizeRes = "-EIO", !.res = "-EIO"]
       ELSE fmt' = [fmt EXCEPT !.pc = "explicit", !.fsPick = PickWithoutSize(fmt)]
    /\ UNCHANGED <<vol, flags, dev, mounts, childAlive, pc, ret, op, result,
                   log, completed, failedAt, elapsed>>
    /\ UNCHANGED hist

\* Lines 713-718: resolve the explicit request.
DoFormat_ResolveExplicit ==
    /\ fmt.pc = "explicit"
    /\ fmt' = [fmt EXCEPT !.pc = "wipe", !.fsPick = ExplicitPick(fmt)]
    /\ UNCHANGED <<vol, flags, dev, mounts, childAlive, pc, ret, op, result,
                   log, completed, failedAt, elapsed>>
    /\ UNCHANGED hist

\* Lines 720-722: WipeBlockDevice; a failure is logged.
DoFormat_Wipe ==
    /\ fmt.pc = "wipe"
    /\ \/ fmt' = [fmt EXCEPT !.pc = "format", !.wipe = "ok"]
       \/ \E e \in Errnos :
            fmt' = [fmt EXCEPT !.pc = "format", !.wipe = "failed", !.errno = e]
    /\ UNCHANGED <<vol, flags, dev, mounts, childAlive, pc, ret, op, result,
                   log, completed, failedAt, elapsed>>
    /\ UNCHANGED hist

\* Lines 724-738: the selected adapter's Format, or -EINVAL when none was
\* selected.  A failing adapter returns a status other than OK and either
\* sets errno or leaves it as it was.
DoFormat_Format ==
    /\ fmt.pc = "format"
    /\ IF fmt.fsPick = "NONE"
       THEN fmt' = [fmt EXCEPT !.pc = "done", !.res = "-EINVAL"]
       ELSE LET adapter == IF fmt.fsPick = "VFAT" THEN "vfat" ELSE "exfat" IN
            \/ fmt' = [fmt EXCEPT !.pc = "done", !.formatted = adapter,
                                  !.adapterRes = "OK",
                                  !.res = FormatResult("OK", fmt.errno)]
            \/ \E e \in Errnos \cup {"none"} :
                 LET after == IF e = "none" THEN fmt.errno ELSE e IN
                 fmt' = [fmt EXCEPT !.pc = "done", !.formatted = adapter,
                                    !.adapterRes = "-1", !.adapterErrno = e,
                                    !.errno = after,
                                    !.res = FormatResult("-1", after)]
    /\ UNCHANGED <<vol, flags, dev, mounts, childAlive, pc, ret, op, result,
                   log, completed, failedAt, elapsed>>
    /\ UNCHANGED hist

DoFormat ==
    \/ DoFormat_Call
    \/ DoFormat_ResolveAuto
    \/ DoFormat_ResolveExplicit
    \/ DoFormat_Wipe
    \/ DoFormat_Format

FormatSpec == Init /\ [][DoFormat]_vars


----------------------------------------------------------------------------
(* Observations used by the properties *)

Last(l) == l[Len(l)]

\* A call of `prim` made by stage `stage` is in l
Called(l, stage, prim) ==
    \E i \in 1..Len(l) : l[i][1] = stage /\ l[i][2] = prim

CalledOn(l, stage, prim, path) ==
    \E i \in 1..Len(l) : l[i] = <<stage, prim, path>>

StagesOf(l) == {l[i][1] : i \in 1..Len(l)}

MountStages ==
    {"metadata", "check", "prepareRaw", "mountRaw", "asec", "prepareOverlay",
     "fork", "spinUp", "reap", "bridge", "ready", "tune", "fanOut"}

\* doMount has returned to its caller
MountReturned == pc = "idle" /\ op = "doMount"

\* A doUnmount invocation has returned: to the caller, or inside doMount's
\* rollback, which returns at once
UnmountReturned == pc = "idle" /\ (op = "doUnmount" \/ ret # "top")

\* The part of the log written by that doUnmount invocation
UnmountLog ==
    IF op = "doUnmount" THEN log ELSE SubSeq(log, failedAt + 1, Len(log))

\* The owner's bridge mount point and the raw mount point of this volume
OwnerBridge == GetFuseMountPathForUser(MountUserId, StableName(vol))
RawMountPoint == RawPathOf(StableName(vol))

PathFields(v) == {v.mRawPath} \cup OverlaySet(v)

\* Every teardown stage that applies to this invocation was attempted
AllStagesAttempted(l) ==
    /\ Called(l, "kill", "KillProcessesUsingPath")
    /\ fuseAtUnmount =>
         /\ \A u \in Range(Siblings) :
              CalledOn(l, "umSiblings", "ForceUnmount",
                       GetFuseMountPathForUser(u, StableName(vol)))
         /\ Called(l, "umBridge", "UnmountUserFuse")
    /\ Called(l, "umAsec", "ForceUnmount")
    /\ vol.mUseSdcardFs =>
         Cardinality({i \in 1..Len(l) :
                        l[i][1] = "umOverlay" /\ l[i][2] = "ForceUnmount"}) = 4
    /\ Called(l, "umRaw", "ForceUnmount")
    /\ Called(l, "rmRaw", "rmdir")

\* The rollback of a failed bridge stage: secure-app, overlay and raw
\* teardown attempted, with the detached unmount when the raw mount stayed
RollbackAttempted(l) ==
    /\ Called(l, "umAsec", "ForceUnmount")
    /\ vol.mUseSdcardFs => Called(l, "umOverlay", "ForceUnmount")
    /\ Called(l, "umRaw", "ForceUnmount")
    /\ RawMountPoint \in mounts => Called(l, "umRaw", "umount2_MNT_DETACH")

----------------------------------------------------------------------------
(* Properties *)

\* An unmount of mount point p was attempted by the rollback of the call
UnmountAttempted(p) ==
    \E i \in (failedAt + 1)..Len(log) :
        log[i][2] \in {"ForceUnmount", "UnmountUserFuse"} /\ log[i][3] = p

\* C1: when doMount returns an error, no mount stage ran after the stage
\* that failed, and every mount this call had completed has been unmounted
\* (its unmount was at least attempted) before the return.
C1_RollbackBeforeError ==
    (MountReturned /\ result # "OK") =>
        /\ \A i \in (failedAt + 1)..Len(log) : log[i][1] \notin MountStages
        /\ \A p \in completed : p \notin mounts \/ UnmountAttempted(p)

\* C2: at the return of every doMount and doUnmount, a path field of the
\* volume is non-empty only if its mount is active.
C2_PathsOnlyWhileMounted ==
    pc = "idle" =>
        \A p \in PathFields(vol) : p # NoPath => p \in mounts

\* C3: a raw or overlay path whose ForceUnmount failed in doUnmount (the
\* mount is still there) is still recorded when doUnmount returns.
C3_FailedUnmountKeepsPath ==
    (pc = "idle" /\ op = "doUnmount") =>
        \A i \in 1..Len(log) :
            (/\ log[i][1] \in {"umOverlay", "umRaw"}
             /\ log[i][2] = "ForceUnmount"
             /\ log[i][3] \in mounts)
            => log[i][3] \in PathFields(vol)

\* C4: whenever doUnmount returns success, the raw path and the four
\* overlay paths are empty and the bridge-mounted flag is false.
C4_SuccessClearsEverything ==
    (pc = "idle" /\ op = "doUnmount" /\ result = "OK") =>
        /\ PathFields(vol) = {NoPath}
        /\ ~vol.mFuseMounted

BridgeUnmountFailed == fuseAtUnmount /\ vol.mFuseMounted

C6_NotReadyRollsBack ==
    (MountReturned /\ ret = "notReady") =>
        /\ Called(UnmountLog, "umBridge", "UnmountUserFuse")
        /\ RollbackAttempted(UnmountLog)
        /\ ~vol.mFuseMounted
        /\ vol.mRawPath = NoPath

C9_SpinUpTimesOut ==
    spinUp = "unchanged" =>
        /\ MountReturned
        /\ result = "ETIMEDOUT"
        /\ elapsed <= SpinUpTimeoutMs + PollIntervalMs

\* C9 witness: the timeout return itself.
C9_Witness ==
    /\ MountReturned /\ result = "ETIMEDOUT"
    /\ spinUp = "unchanged"
    /\ elapsed = SpinUpTimeoutMs + PollIntervalMs

\* C10: doMount never depends on the overlay child to go on: where it
\* waits for the child after the fork, it can return whatever the child
\* does, also when the child changed the device identity and never exits.
C10_MountNeverWaitsOnChild ==
    pc = "m_waitpid" => ENABLED DoMount_Waitpid

\* The stages of doMount up to the early return of line 474
RawStages == {"metadata", "check", "prepareRaw", "mountRaw", "asec"}

\* C11: doMount of a volume that is not visible returns OK right after the
\* raw mount stage (and the secure-app staging): it never prepares or probes
\* an overlay path, forks, mounts the bridge, calls the readiness callback,
\* tunes the bridge or runs the bind fan-out, and the bridge-mounted flag
\* stays false.
C11_InvisibleStopsAfterRaw ==
    (op = "doMount" /\ ~flags.visible) =>
        /\ StagesOf(log) \subseteq RawStages
        /\ pc \in {"idle", "m_check", "m_prepare", "m_mount", "m_asec"}
        /\ ~vol.mFuseMounted
        /\ OwnerBridge \notin mounts
        /\ OverlaySet(vol) \cap mounts = {}
        /\ (MountReturned /\ RawMountPoint \in completed) =>
               (result = "OK" /\ Last(log)[1] \in {"mountRaw", "asec"})

\* C11 witness: a primary volume that is not visible has been mounted: raw
\* mount and secure-app bind made, success returned.
C11_Witness ==
    /\ MountReturned /\ result = "OK"
    /\ ~flags.visible /\ flags.primary
    /\ vol.mUseSdcardFs /\ flags.callback
    /\ RawMountPoint \in mounts
    /\ kAsecPath \in mounts

\* C12: doMount returns OK only if no stage failed, the raw mount was made
\* and, for a visible volume, the overlay spin-up was observed and the child
\* reaped (overlay mode), the bridge was mounted and the readiness callback
\* (when registered) was called and reported ready.
C12_SuccessOnlyAfterMandatoryStages ==
    (MountReturned /\ result = "OK") =>
        /\ failedAt = 0 /\ ret = "top"
        /\ RawMountPoint \in completed
        /\ flags.visible =>
             /\ vol.mUseSdcardFs =>
                  /\ spinUp = "changed"
                  /\ OverlaySet(vol) \subseteq completed
                  /\ Called(log, "reap", "waitpid")
             /\ OwnerBridge \in completed
             /\ vol.mFuseMounted
             /\ flags.callback => Called(log, "ready", "onVolumeChecking")

\* C12 witness: a visible volume in overlay mode with a registered callback
\* has been mounted through the bind fan-out.
C12_Witness ==
    /\ MountReturned /\ result = "OK"
    /\ flags.visible /\ vol.mUseSdcardFs /\ flags.callback
    /\ spinUp = "changed"
    /\ OwnerBridge \in mounts
    /\ Called(log, "fanOut", "BindMount")

\* Where the log of the doUnmount invocation in progress (or last returned)
\* starts: after the failed stage, when doMount's rollback made the call
UnmountStart == IF op = "doUnmount" THEN 0 ELSE failedAt

\* Entry j of the log is preceded, within the same doUnmount invocation, by
\* the ForceUnmount of user u's bind mount
SiblingUnmountedBefore(u, j) ==
    \E i \in (UnmountStart + 1)..(j - 1) :
        log[i] = <<"umSiblings", "ForceUnmount",
                   GetFuseMountPathForUser(u, StableName(vol))>>

\* C13: in doUnmount with the bridge mounted, the owner's bridge unmount is
\* attempted only after the unmount of the bind mount of every other started
\* user that shares storage with the owner has been attempted, and with no
\* sibling unmount left to attempt.
C13_SiblingsBeforeBridge ==
    /\ \A j \in (UnmountStart + 1)..Len(log) :
         log[j][1] = "umBridge" =>
            \A u \in Range(SharingUsers) : SiblingUnmountedBefore(u, j)
    /\ \A i \in (UnmountStart + 1)..Len(log), j \in (UnmountStart + 1)..Len(log) :
         (log[i][1] = "umSiblings" /\ log[j][1] = "umBridge") => i < j
    /\ pc = "u_fuse" =>
         \A u \in Range(SharingUsers) : SiblingUnmountedBefore(u, Len(log) + 1)

\* C13 witness: a doUnmount with the bridge mounted has attempted the
\* bridge unmount while a sharing user's bind mount could not be removed.
C13_Witness ==
    /\ op = "doUnmount" /\ fuseAtUnmount
    /\ Called(log, "umBridge", "UnmountUserFuse")
    /\ GetFuseMountPathForUser("10", StableName(vol)) \in mounts
    /\ OwnerBridge \notin mounts

\* The users for which the fan-out of the returned doMount called `prim`
FanOutUsers(prim) ==
    {log[i][3][2] : i \in {k \in 1..Len(log) :
                              log[k][1] = "fanOut" /\ log[k][2] = prim}}

\* How many calls of `prim` the fan-out made
FanOutCalls(prim) ==
    Cardinality({k \in 1..Len(log) : log[k][1] = "fanOut" /\ log[k][2] = prim})

\* The started users, other than the owner, whose shared-storage user is
\* the owner
OwnerSharers ==
    {u \in Range(StartedUsers) :
        u # MountUserId /\ SharedStorageUser(u) = MountUserId}

\* C14: a doMount that reached the bind fan-out attempted one bind mount
\* for exactly the started users, other than the owner, whose shared-storage
\* user is the owner (two of the three other users), whichever directory
\* creations and bind mounts failed, and returned OK.
C14_FanOutExactlySharers ==
    (MountReturned /\ Called(log, "tune", "ConfigureMaxDirtyRatioForFuse")) =>
        /\ FanOutUsers("BindMount") = OwnerSharers
        /\ FanOutCalls("BindMount") = Cardinality(OwnerSharers)
        /\ FanOutUsers("PrepareMountDirForUser") = OwnerSharers
        /\ FanOutUsers("LOG_ERROR_MountDir") \cup FanOutUsers("LOG_ERROR_BindMount")
             \subseteq OwnerSharers
        /\ result = "OK"

\* C14 witness: the directory creation and the bind mount failed for the
\* first sharing user; the bind mount of the second one was made and doMount
\* returned OK.
C14_Witness ==
    /\ MountReturned /\ result = "OK"
    /\ Cardinality(OwnerSharers) = 2
    /\ FanOutUsers("LOG_ERROR_MountDir") = {"10"}
    /\ FanOutUsers("LOG_ERROR_BindMount") = {"10"}
    /\ GetFuseMountPathForUser("11", StableName(vol)) \in mounts
    /\ GetFuseMountPathForUser("10", StableName(vol)) \notin mounts

\* A doUnmount called by the owner of the volume has returned, and it found
\* the bridge-mounted flag false, on a volume whose raw path doMount had
\* assigned
PartialUnmountReturned ==
    /\ pc = "idle" /\ op = "doUnmount"
    /\ ~fuseAtUnmount
    /\ \E i \in 1..Len(log) : log[i][1] = "umRaw" /\ log[i][3] # NoPath

\* C15 as stated: doUnmount on a volume whose bridge was never mounted
\* returns OK, makes no sibling, bridge or overlay teardown, and attempts the
\* raw unmount and the raw directory removal.
C15_PartialStateSkipsTeardown ==
    PartialUnmountReturned =>
        /\ result = "OK"
        /\ StagesOf(log) \cap {"umSiblings", "umBridge", "umOverlay"} = {}
        /\ Called(log, "umRaw", "ForceUnmount")
        /\ Called(log, "rmRaw", "rmdir")

\* C15 as amended: the same, but the overlay teardown is skipped only when
\* the overlay mode is disabled; when it is enabled the four overlay paths
\* are force-unmounted and removed although no overlay was mounted.
C15_PartialStateSkipsBridgeTeardown ==
    PartialUnmountReturned =>
        /\ result = "OK"
        /\ StagesOf(log) \cap {"umSiblings", "umBridge"} = {}
        /\ ("umOverlay" \in StagesOf(log)) <=> vol.mUseSdcardFs
        /\ Called(log, "umRaw", "ForceUnmount")
        /\ Called(log, "rmRaw", "rmdir")

\* C15 witness: a volume that is not visible, with the overlay mode
\* disabled, was mounted (raw mount only); its doUnmount could not free the
\* raw mount and has returned OK.
C15_Witness ==
    /\ PartialUnmountReturned /\ result = "OK"
    /\ ~flags.visible /\ ~vol.mUseSdcardFs
    /\ ~fuseAtCall
    /\ mounts = {RawMountPoint}
    /\ Called(log, "umRaw", "umount2_MNT_DETACH")
    /\ StagesOf(log) = {"kill", "umAsec", "umRaw", "rmRaw"}

\* C16: in doUnmount, a ForceUnmount of the raw path that left the mount in
\* place is followed at once by the detached unmount of that path; the raw
\* stage always goes on to the directory removal, and the directory removal
\* always returns, with OK to the caller, after at most one more kill of the
\* processes using the public path.
C16_RawUnmountEscalates ==
    /\ [](\A j \in (UnmountStart + 1)..Len(log) :
            (/\ log[j][1] = "umRaw" /\ log[j][2] = "ForceUnmount"
             /\ log[j][3] \in mounts)
            => /\ j < Len(log)
               /\ log[j + 1] = <<"umRaw", "umount2_MNT_DETACH", log[j][3]>>)
    /\ [][pc = "u_raw" =>
            /\ pc' = "u_rmdir"
            /\ Last(log')[1] = "umRaw"
            /\ result' = result]_vars
    /\ [][pc = "u_rmdir" =>
            /\ pc' = "idle"
            /\ ret = "top" => result' = "OK"
            /\ \/ Last(log')[2] = "rmdir"
               \/ /\ Last(log') = <<"rmRaw", "KillProcessesUsingPath", vol.path>>
                  /\ log'[Len(log') - 1][2] = "rmdir"]_vars

\* C16 witness: neither the forced nor the detached unmount freed the raw
\* mount, the directory removal failed, the processes were killed again and
\* doUnmount returned OK.
C16_Witness ==
    /\ pc = "idle" /\ op = "doUnmount" /\ result = "OK"
    /\ Called(log, "umRaw", "umount2_MNT_DETACH")
    /\ Last(log)[2] = "KillProcessesUsingPath"
    /\ RawMountPoint \in mounts

----------------------------------------------------------------------------
(* Properties of doFormat, checked under FormatSpec *)

\* doFormat has returned
FormatReturned == fmt.pc = "done"

\* doFormat was called with "auto", both types are supported and an adapter
\* was invoked (the size query succeeded)
AutoBothFormatted ==
    /\ FormatReturned
    /\ fmt.fsType = "auto" /\ fmt.isVfatSup /\ fmt.isExfatSup
    /\ fmt.formatted # "none"

\* C17 as stated: with "auto" and both types supported, a device one byte
\* below the threshold of 32,896 MiB is formatted with vfat and a device at
\* or above the threshold with exfat.
C17_AutoPicksAtThreshold ==
    AutoBothFormatted =>
        /\ fmt.size = <<ThresholdMiB - 1, BytesPerMiB - 1>> => fmt.formatted = "vfat"
        /\ fmt.size[1] >= ThresholdMiB => fmt.formatted = "exfat"

\* C17 as amended: a device of at most the threshold, the threshold itself
\* included, is formatted with vfat, and a device above it with exfat.
C17_AutoPicksAboveThreshold ==
    AutoBothFormatted =>
        /\ fmt.sizeQueried
        /\ fmt.size = <<ThresholdMiB - 1, BytesPerMiB - 1>> => fmt.formatted = "vfat"
        /\ fmt.size = <<ThresholdMiB, 0>> => fmt.formatted = "vfat"
        /\ fmt.formatted = "exfat" <=>
             \/ fmt.size[1] > ThresholdMiB
             \/ fmt.size[1] = ThresholdMiB /\ fmt.size[2] >= 1

\* C17 witness: a device of exactly the threshold was formatted with vfat.
C17_Witness ==
    /\ AutoBothFormatted
    /\ fmt.size = <<ThresholdMiB, 0>>
    /\ fmt.formatted = "vfat"
    /\ fmt.res = "OK"

\* C18: with "auto" and exactly one of vfat and exfat supported, doFormat
\* formats with that type and never queries the device size.
C18_AutoWithOneTypePicksIt ==
    (FormatReturned /\ fmt.fsType = "auto" /\ fmt.isVfatSup # fmt.isExfatSup) =>
        /\ fmt.formatted = IF fmt.isVfatSup THEN "vfat" ELSE "exfat"
        /\ ~fmt.sizeQueried
        /\ fmt.res # "-EINVAL"

\* C18 witness: "auto" with exfat alone supported has formatted with exfat.
C18_Witness ==
    /\ FormatReturned /\ fmt.fsType = "auto"
    /\ fmt.isExfatSup /\ ~fmt.isVfatSup
    /\ fmt.formatted = "exfat"
    /\ fmt.res = "OK"

\* The request resolves to no supported type
NoSupportedSelection ==
    \/ fmt.fsType = "vfat" /\ ~fmt.isVfatSup
    \/ fmt.fsType = "exfat" /\ ~fmt.isExfatSup
    \/ fmt.fsType \notin {"auto", "vfat", "exfat"}
    \/ fmt.fsType = "auto" /\ ~fmt.isVfatSup /\ ~fmt.isExfatSup

\* C19: an explicit request formats with the requested type if and only if
\* that type is supported, and every request that resolves to no supported
\* type returns -EINVAL without any adapter's Format being invoked.
C19_ExplicitNeedsSupport ==
    FormatReturned =>
        /\ fmt.fsType = "vfat" =>
             /\ fmt.formatted = "vfat" <=> fmt.isVfatSup
             /\ fmt.formatted # "exfat"
        /\ fmt.fsType = "exfat" =>
             /\ fmt.formatted = "exfat" <=> fmt.isExfatSup
             /\ fmt.formatted # "vfat"
        /\ NoSupportedSelection =>
             /\ fmt.res = "-EINVAL"
             /\ fmt.formatted = "none"
             /\ fmt.adapterRes = "none"

\* C19 witness: exfat was requested while vfat alone is supported; doFormat
\* returned -EINVAL and formatted nothing.
C19_Witness ==
    /\ FormatReturned /\ fmt.fsType = "exfat"
    /\ fmt.isVfatSup /\ ~fmt.isExfatSup
    /\ fmt.res = "-EINVAL"
    /\ fmt.formatted = "none"

\* The error of the adapter whose Format failed: the status it returned or
\* the errno it set
AdapterErrors ==
    {fmt.adapterRes} \cup
    (IF fmt.adapterErrno = "none" THEN {} ELSE {NegErrno(fmt.adapterErrno)})

----------------------------------------------------------------------------
(* Properties of the dispatch, the stable name and the staging *)

\* The path fields of the volume, the public and internal paths included
AllPaths(v) ==
    <<v.mRawPath, v.mSdcardFsDefault, v.mSdcardFsRead, v.mSdcardFsWrite,
      v.mSdcardFsFull, v.internalPath, v.path>>

\* C21: doMount goes past the dispatch only with a vfat or exfat type whose
\* Check was called; when it returns from the dispatch instead, it returns
\* the I/O error, and from its call to that return no directory was
\* prepared, no Mount invoked, no mount made, no path field assigned and
\* the bridge-mounted flag not changed.
C21_FailedDispatchLeavesNoMount ==
    /\ [](pc \in {"m_prepare", "m_mount", "m_asec"} =>
            /\ vol.mFsType \in {"vfat", "exfat"}
            /\ Called(log, "check", "Check"))
    /\ [][(pc = "idle" /\ pc' = "m_check") =>
            /\ AllPaths(vol') = AllPaths(vol)
            /\ vol'.mFuseMounted = vol.mFuseMounted
            /\ mounts' = mounts]_vars
    /\ [][(pc = "m_check" /\ pc' = "idle") =>
            /\ result' = "EIO"
            /\ StagesOf(log') \subseteq {"metadata", "check"}
            /\ AllPaths(vol') = AllPaths(vol)
            /\ vol'.mFuseMounted = vol.mFuseMounted
            /\ mounts' = mounts
            /\ completed' = {}]_vars
    /\ [][(pc = "m_check" /\ vol.mFsType \notin {"vfat", "exfat"}) =>
            pc' = "idle"]_vars

\* C21 witness: the adapter's Check failed on a volume never mounted
\* before; doMount returned the I/O error with every path still empty.
C21_Witness ==
    /\ MountReturned /\ result = "EIO"
    /\ Last(log) = <<"check", "Check", NoPath>>
    /\ AllPaths(vol) = <<NoPath, NoPath, NoPath, NoPath, NoPath, NoPath, NoPath>>
    /\ mounts = {}

\* The name the paths of the volume were derived from at mount, as recorded
\* in the raw path
MountedName == vol.mRawPath[3]

\* The log entries whose path is derived from (user, stable name)
UserPathEntries ==
    {i \in 1..Len(log) :
        \/ log[i][1] \in {"bridge", "tune", "umSiblings", "umBridge"}
        \/ log[i][1] = "fanOut" /\ log[i][2] \in {"PrepareDir", "BindMount"}}

\* C22: the stable name is the UUID when there is one, else the volume id;
\* every bridge and bind path that doMount, its fan-out and doUnmount use is
\* derived from the name the raw path was derived from at mount, and only
\* the metadata read that opens doMount changes what the name is computed
\* from.
C22_StableNameIsStable ==
    /\ [](vol.mRawPath # NoPath =>
            /\ MountedName = IF vol.mFsUuid # "" THEN vol.mFsUuid ELSE VolId
            /\ \A i \in UserPathEntries :
                 /\ log[i][3][1] = "/mnt/user"
                 /\ log[i][3][3] = MountedName)
    /\ []((op = "doUnmount" /\ vol.mRawPath # NoPath) =>
            \A i \in 1..Len(log) :
                log[i][1] = "umBridge" =>
                    log[i][3] = <<"/mnt/user", MountUserId, MountedName>>)
    /\ [][vol'.mFsUuid # vol.mFsUuid => (pc = "idle" /\ pc' = "m_check")]_vars

\* C22 witness: a volume mounted under its UUID is being unmounted; the
\* sibling and bridge teardown have used the paths derived at mount.
C22_Witness ==
    /\ op = "doUnmount" /\ pc = "u_asec" /\ fuseAtUnmount
    /\ vol.mFsUuid = "1234-ABCD"
    /\ MountedName = "1234-ABCD"
    /\ CalledOn(log, "umBridge", "UnmountUserFuse",
                <<"/mnt/user", "0", "1234-ABCD">>)
    /\ CalledOn(log, "umSiblings", "ForceUnmount",
                <<"/mnt/user", "10", "1234-ABCD">>)

\* The positions of the log entries of stage `stage`
EntriesOf(stage) == {i \in 1..Len(log) : log[i][1] = stage}

\* C23: doMount of a volume that is not primary, visible or not, never
\* runs the secure-app staging (no probe of the legacy directory, no mkdir,
\* no bind mount on the fixed secure-app path); the staging runs only with
\* the primary flag set, and only after the raw mount was made.
C23_StagingOnlyWhenPrimary ==
    op = "doMount" =>
        /\ ~flags.primary =>
             /\ EntriesOf("asec") = {}
             /\ kAsecPath \notin completed
        /\ EntriesOf("asec") # {} =>
             /\ flags.primary
             /\ RawMountPoint \in completed
             /\ \A i \in EntriesOf("asec") :
                  \E j \in EntriesOf("mountRaw") : j < i
        /\ (flags.primary /\ pc \notin {"idle", "m_check", "m_prepare", "m_mount", "m_asec"})
             => Called(log, "asec", "mkdir")

\* C23 witness: a visible volume that is not primary has been mounted up to
\* the bind fan-out without any staging.
C23_Witness ==
    /\ MountReturned /\ result = "OK"
    /\ flags.visible /\ ~flags.primary
    /\ Called(log, "fanOut", "BindMount")
    /\ EntriesOf("asec") = {}
    /\ kAsecPath \notin mounts

----------------------------------------------------------------------------
(* Properties of the calls that follow a failed call *)

\* The doUnmount that followed a doMount timed out in the spin-up has
\* returned
TimeoutCleanupReturned == pc = "idle" /\ op = "doUnmount" /\ prev = "timedOut"

\* A doMount that timed out has returned without reaping the child
TimeoutDoesNotReap ==
    (MountReturned /\ result = "ETIMEDOUT") =>
        /\ ~Called(log, "reap", "waitpid")
        /\ Last(log)[1] = "spinUp"

\* The overlay and raw teardown were attempted and the paths are cleared
OverlayAndRawCleanedUp ==
    /\ result = "OK"
    /\ Cardinality({i \in EntriesOf("umOverlay") : log[i][2] = "ForceUnmount"}) = 4
    /\ Called(log, "umRaw", "ForceUnmount")
    /\ PathFields(vol) = {NoPath}

CallsOf(stage, prim) ==
    {i \in 1..Len(log) : log[i][1] = stage /\ log[i][2] = prim}

\* C25: with the overlay mode enabled, doMount attempts the bridge mount
\* only after it captured the device identity of the overlay target, then
\* forked, then polled that identity and saw it differ from the baseline
\* within the budget; the baseline is captured before the fork.
C25_BridgeAfterObservedSpinUp ==
    (op = "doMount" /\ vol.mUseSdcardFs) =>
        /\ \A f \in CallsOf("fork", "fork") :
             \E b \in CallsOf("prepareOverlay", "GetDevice") :
                 b < f /\ log[b][3] = SdcardFsFullOf(StableName(vol))
        /\ \A m \in CallsOf("bridge", "MountUserFuse") :
             /\ spinUp = "changed"
             /\ \E b \in CallsOf("prepareOverlay", "GetDevice"),
                   f \in CallsOf("fork", "fork"),
                   g \in CallsOf("spinUp", "GetDevice") :
                     b < f /\ f < g /\ g < m /\ log[g][3] = log[b][3]
        /\ pc \in {"m_waitpid", "m_fuse"} =>
             /\ spinUp = "changed"
             /\ OverlaySet(vol) \subseteq mounts

\* C25 witness: the bridge mount was attempted after the identity was seen
\* to change, on a visible volume in overlay mode.
C25_Witness ==
    /\ op = "doMount" /\ vol.mUseSdcardFs /\ flags.visible
    /\ pc = "m_ready"
    /\ spinUp = "changed"
    /\ CallsOf("bridge", "MountUserFuse") # {}

\* A doUnmount called by the owner of the volume has returned
TopUnmountReturned == pc = "idle" /\ op = "doUnmount"

\* C26: a doUnmount whose bridge unmount failed returns the error with the
\* bridge-mounted flag still true and the raw path still recorded; the
\* doUnmount that follows attempts the sibling and bridge teardown again
\* and, when its bridge unmount succeeds, runs every remaining stage and
\* returns OK with the flag false.
C26_FailedBridgeUnmountIsRetried ==
    /\ (TopUnmountReturned /\ result = "ERRNO") =>
         /\ vol.mFuseMounted
         /\ vol.mRawPath # NoPath
         /\ Last(log)[2] = "UnmountUserFuse"
    /\ (op = "doUnmount" /\ prev = "bridgeBusy") =>
         /\ fuseAtCall
         /\ pc \notin {"u_kill", "u_siblings"} =>
              \A u \in Range(Siblings) :
                  CalledOn(log, "umSiblings", "ForceUnmount",
                           GetFuseMountPathForUser(u, StableName(vol)))
         /\ pc \notin {"u_kill", "u_siblings", "u_fuse"} =>
              Called(log, "umBridge", "UnmountUserFuse")
    /\ (TopUnmountReturned /\ prev = "bridgeBusy" /\ ~vol.mFuseMounted) =>
         /\ result = "OK"
         /\ AllStagesAttempted(log)
         /\ vol.mRawPath = NoPath

\* C26 witness: the doUnmount that followed a failed one has freed the
\* bridge and returned OK.
C26_Witness ==
    /\ TopUnmountReturned /\ prev = "bridgeBusy"
    /\ result = "OK"
    /\ ~vol.mFuseMounted
    /\ OwnerBridge \notin mounts
    /\ Called(log, "rmRaw", "rmdir")

----------------------------------------------------------------------------
(* Further properties of doFormat, under FormatSpec *)

\* C27: a doFormat that returned -EINVAL for a request that resolves to no
\* supported type has neither wiped nor formatted the device.
C27_EinvalLeavesDeviceUntouched ==
    (FormatReturned /\ NoSupportedSelection /\ fmt.res = "-EINVAL") =>
        /\ fmt.wipe # "ok"
        /\ fmt.formatted = "none"

\* C29: with "auto" and both types supported, a failed size query makes
\* doFormat return the status of the query at once: WipeBlockDevice and the
\* adapters' Format are not called.
C29_SizeErrorReturnsBeforeWipe ==
    fmt.sizeRes \notin {"none", "OK"} =>
        /\ FormatReturned
        /\ fmt.fsType = "auto" /\ fmt.isVfatSup /\ fmt.isExfatSup
        /\ fmt.res = fmt.sizeRes
        /\ fmt.wipe = "none"
        /\ fmt.formatted = "none"
        /\ fmt.adapterRes = "none"

\* C29 witness: the size query failed and doFormat has returned its error.
C29_Witness ==
    /\ FormatReturned
    /\ fmt.sizeQueried /\ fmt.sizeRes = "-EIO"
    /\ fmt.res = "-EIO"
    /\ fmt.wipe = "none"

----------------------------------------------------------------------------
(* Two volumes: this volume is not primary, and the doMount of another,   *)
(* primary volume has already bind-mounted its secure-app directory on    *)
(* kAsecPath (initAsecStage, line 397).                                    *)

SharedInit ==
    /\ vol \in [mFuseMounted : {FALSE},
                mUseSdcardFs : BOOLEAN,
                mFsType : {""}, mFsUuid : {""},
                mRawPath : {NoPath},
                mSdcardFsDefault : {NoPath}, mSdcardFsRead : {NoPath},
                mSdcardFsWrite : {NoPath}, mSdcardFsFull : {NoPath},
                internalPath : {NoPath}, path : {NoPath}]
    /\ flags \in [primary : {FALSE}, visible : BOOLEAN, callback : BOOLEAN]
    /\ dev \in Devices
    /\ mounts = {kAsecPath}
    /\ childAlive = FALSE
    /\ pc = "idle"
    /\ ret = "top"
    /\ op = "none"
    /\ result = "none"
    /\ log = <<>>
    /\ completed = {}
    /\ failedAt = 0
    /\ elapsed = 0
    /\ spinUp = "none"
    /\ fuseAtCall = FALSE
    /\ fuseAtUnmount = FALSE
    /\ fmt = NoFormat
    /\ prev = "none"

SharedSpec == SharedInit /\ [][Next]_vars

\* C28: mounting or unmounting a volume that is not primary leaves the
\* secure-app bind mount that a primary volume's doMount created on
\* kAsecPath in place.
C28_OtherVolumesAsecBindKept == kAsecPath \in mounts

====
